---- MODULE Spec2Model ----
(***************************************************************************)
(* RawBSONDocument (bson/raw_bson_document.py): a lazy view over one       *)
(* encoded BSON document.  The buffer is a sequence of bytes (0..255);     *)
(* offsets are Python's, 0-based, so the byte at offset i is data[i + 1].  *)
(***************************************************************************)
EXTENDS Integers, Sequences, FiniteSets, TLC

\* ---------------------------------------------------------------- bounds
MaxElems == 2       \* elements in an encoded document
MaxOps == 3         \* operations in a single-threaded run
NThreads == 2       \* concurrent callers

\* ---------------------------------------------------------- byte format
TagBool == 8
TagNull == 10

\* The element of a one-element set; { F(x) : x \in {e} } computes e once.
The(S) == CHOOSE x \in S : TRUE

Min(a, b) == IF a < b THEN a ELSE b
Max(a, b) == IF a > b THEN a ELSE b

\* Python's s[lo:hi] on a bytes object: indices are clamped, negative ones
\* count from the end, and an empty range gives the empty string.
PyIndex(i, n) == IF i < 0 THEN Max(i + n, 0) ELSE Min(i, n)
PySlice(s, lo, hi) == SubSeq(s, PyIndex(lo, Len(s)) + 1, PyIndex(hi, Len(s)))

\* struct "<i": four bytes, little-endian, two's complement.
UNPACK_INT(bs) ==
    LET top == IF bs[4] >= 128 THEN bs[4] - 256 ELSE bs[4]
    IN  bs[1] + 256 * bs[2] + 65536 * bs[3] + 16777216 * top

PackInt(n) ==
    << n % 256, (n \div 256) % 256, (n \div 65536) % 256, (n \div 16777216) % 256 >>

\* ------------------------------------------------------------- mappings
\* A dict is a sequence of <<name, value>> pairs with pairwise distinct
\* names, in insertion order; storing an existing key keeps its position.
Keys(m) == { m[i][1] : i \in 1..Len(m) }
HasKey(m, k) == \E i \in 1..Len(m) : m[i][1] = k
Lookup(m, k) == m[CHOOSE i \in 1..Len(m) : m[i][1] = k][2]
MapPut(m, k, v) ==
    IF HasKey(m, k)
    THEN [i \in 1..Len(m) |-> IF m[i][1] = k THEN <<k, v>> ELSE m[i]]
    ELSE Append(m, <<k, v>>)
KeyList(m) == [i \in 1..Len(m) |-> m[i][1]]

\* The cache field __inflated_doc: None, or a dict (possibly empty).
None == [computed |-> FALSE, doc |-> <<>>]
Some(m) == [computed |-> TRUE, doc |-> m]

\* ------------------------------------------------------------- decoders
NoExc == "none"
StructError == "struct.error"
BadSize == "InvalidBSON: invalid object size"
BadEoo == "InvalidBSON: bad eoo"
BadElement == "InvalidBSON: element"
KeyError == "KeyError"

\* The single-element decoder: decodeElement(buffer, offset, limit) gives
\* (name, value, nextOffset), or raises on an unknown tag, an unterminated
\* name or a payload that would pass limit.
_element_to_dict(data, position, obj_end) ==
    LET lim  == Min(obj_end, Len(data))
        nuls == { q \in (position + 1)..(lim - 1) : data[q + 1] = 0 }
        bad  == [exc |-> BadElement, name |-> <<>>, value |-> "", position |-> position]
    IN  IF position < 0 \/ position >= lim \/ nuls = {} THEN bad
        ELSE LET q    == CHOOSE x \in nuls : \A y \in nuls : x <= y
                 tag  == data[position + 1]
                 name == SubSeq(data, position + 2, q)
             IN  IF tag = TagNull
                 THEN [exc |-> NoExc, name |-> name, value |-> "null", position |-> q + 1]
                 ELSE IF tag = TagBool /\ q + 2 <= lim
                 THEN [exc |-> NoExc, name |-> name,
                       value |-> IF data[q + 2] = 1 THEN "true" ELSE "false",
                       position |-> q + 2]
                 ELSE bad

\* The two checks of lines 73-77 in the other order: terminator, then size.
ItemsOpenEooFirst(raw) ==
    LET hdr == PySlice(raw, 0, 4)
    IN  IF Len(hdr) # 4
        THEN [exc |-> StructError, obj_size |-> 0, obj_end |-> 0]
        ELSE LET obj_size == UNPACK_INT(hdr)
                 obj_end  == obj_size - 1
             IN  IF PySlice(raw, obj_end, obj_size) # <<0>>
                 THEN [exc |-> BadEoo, obj_size |-> obj_size, obj_end |-> obj_end]
                 ELSE IF Len(raw) < obj_size
                 THEN [exc |-> BadSize, obj_size |-> obj_size, obj_end |-> obj_end]
                 ELSE [exc |-> NoExc, obj_size |-> obj_size, obj_end |-> obj_end]

\* _items, lines 72-77: the checks made before the first element is decoded.
ItemsOpen(raw) ==
    LET hdr == PySlice(raw, 0, 4)
    IN  IF Len(hdr) # 4
        THEN [exc |-> StructError, obj_size |-> 0, obj_end |-> 0]
        ELSE LET obj_size == UNPACK_INT(hdr)
                 obj_end  == obj_size - 1
             IN  IF Len(raw) < obj_size
                 THEN [exc |-> BadSize, obj_size |-> obj_size, obj_end |-> obj_end]
                 ELSE IF PySlice(raw, obj_end, obj_size) # <<0>>
                 THEN [exc |-> BadEoo, obj_size |-> obj_size, obj_end |-> obj_end]
                 ELSE [exc |-> NoExc, obj_size |-> obj_size, obj_end |-> obj_end]

\* The pull with the third result of _element_to_dict dropped: the cursor
\* is never assigned.
ItemsPullStuck(raw, position, obj_end, obj_size) ==
    IF ~(position < obj_end)
    THEN [kind |-> "stop", exc |-> NoExc, name |-> <<>>, value |-> "", position |-> position]
    ELSE LET r == _element_to_dict(raw, position, obj_size)
         IN  IF r.exc # NoExc
             THEN [kind |-> "raise", exc |-> r.exc, name |-> <<>>, value |-> "",
                   position |-> position]
             ELSE [kind |-> "yield", exc |-> NoExc, name |-> r.name, value |-> r.value,
                   position |-> position]

\* _items, lines 83-86: one pull of the generator at cursor `position`.
ItemsPull(raw, position, obj_end, obj_size) ==
    IF ~(position < obj_end)
    THEN [kind |-> "stop", exc |-> NoExc, name |-> <<>>, value |-> "", position |-> position]
    ELSE LET r == _element_to_dict(raw, position, obj_size)
         IN  IF r.exc # NoExc
             THEN [kind |-> "raise", exc |-> r.exc, name |-> <<>>, value |-> "",
                   position |-> position]
             ELSE [kind |-> "yield", exc |-> NoExc, name |-> r.name, value |-> r.value,
                   position |-> r.position]

\* The generator of the scanner branch driven to its end.  `want` is the
\* name a caller stops at (<<0>> is no name: a caller that never stops).
\* pairs: what was yielded; calls: invocations of _element_to_dict;
\* found: the caller stopped at `want`.
RECURSIVE ItemsDrive(_, _, _, _, _, _, _)
ItemsDrive(raw, position, obj_end, obj_size, want, pairs, calls) ==
    The({ IF p.kind = "stop"
          THEN [exc |-> NoExc, pairs |-> pairs, calls |-> calls, found |-> FALSE]
          ELSE IF p.kind = "raise"
          THEN [exc |-> p.exc, pairs |-> pairs, calls |-> calls + 1, found |-> FALSE]
          ELSE IF p.name = want
          THEN [exc |-> NoExc, pairs |-> Append(pairs, <<p.name, p.value>>),
                calls |-> calls + 1, found |-> TRUE]
          ELSE ItemsDrive(raw, p.position, obj_end, obj_size, want,
                          Append(pairs, <<p.name, p.value>>), calls + 1)
          : p \in { ItemsPull(raw, position, obj_end, obj_size) } })

NoName == <<0>>

\* _items (lines 66-86) consumed by a caller that stops at `want`.
_items(raw, inflated, want) ==
    IF inflated.computed
    THEN LET m    == inflated.doc
             hits == { i \in 1..Len(m) : m[i][1] = want }
             n    == IF hits = {} THEN Len(m)
                     ELSE CHOOSE i \in hits : \A j \in hits : i <= j
         IN  [exc |-> NoExc, pairs |-> SubSeq(m, 1, n), calls |-> 0, found |-> hits # {}]
    ELSE The({ IF o.exc # NoExc
               THEN [exc |-> o.exc, pairs |-> <<>>, calls |-> 0, found |-> FALSE]
               ELSE ItemsDrive(raw, 4, o.obj_end, o.obj_size, want, <<>>, 0)
               : o \in { ItemsOpen(raw) } })

\* The full-document decoder: decodeDocument(buffer) gives the mapping of
\* the whole document in one step (a later element overwrites an earlier
\* one of the same name), or raises.
RECURSIVE DecodeElements(_, _, _, _)
DecodeElements(data, position, obj_end, m) ==
    IF ~(position < obj_end) THEN [exc |-> NoExc, doc |-> m]
    ELSE The({ IF r.exc # NoExc THEN [exc |-> r.exc, doc |-> <<>>]
               ELSE DecodeElements(data, r.position, obj_end, MapPut(m, r.name, r.value))
               : r \in { _element_to_dict(data, position, obj_end) } })

decode(data) ==
    LET hdr == PySlice(data, 0, 4)
    IN  IF Len(hdr) # 4 THEN [exc |-> BadSize, doc |-> <<>>]
        ELSE LET obj_size == UNPACK_INT(hdr)
             IN  IF obj_size > Len(data) \/ obj_size < 5
                 THEN [exc |-> BadSize, doc |-> <<>>]
                 ELSE IF data[obj_size] # 0 THEN [exc |-> BadEoo, doc |-> <<>>]
                 ELSE DecodeElements(data, 4, obj_size - 1, <<>>)


\* ------------------------------------------------------------ documents
NameSet == { <<97>>, <<98>> }
ValueSet == { "null", "true" }
Elements == NameSet \X ValueSet

SeqsUpTo(S, n) == UNION { [1..k -> S] : k \in 0..n }

ElemBytes(e) ==
    IF e[2] = "null" THEN <<TagNull>> \o e[1] \o <<0>>
    ELSE <<TagBool>> \o e[1] \o <<0>> \o << IF e[2] = "true" THEN 1 ELSE 0 >>

RECURSIVE Body(_)
Body(d) == IF d = <<>> THEN <<>> ELSE ElemBytes(Head(d)) \o Body(Tail(d))

Wrap(body) == PackInt(Len(body) + 5) \o body \o <<0>>
Encode(d) == Wrap(Body(d))

Docs == SeqsUpTo(Elements, MaxElems)
WellFormedBuffers == { Encode(d) : d \in Docs }
WellFormed(b) == b \in WellFormedBuffers

\* Buffers that are not the encoding of a document.
BadTerminator(b) == [b EXCEPT ![Len(b)] = 1]
Truncated(b) == SubSeq(b, 1, Len(b) - 1)
Trailing(b) == b \o <<0>>
BadTails == { <<127, 97, 0>>, <<TagBool, 97, 0>> }
ShortBuffers == { Encode(d) : d \in SeqsUpTo(Elements, MaxElems - 1) }
Buffers ==
    WellFormedBuffers
    \cup { BadTerminator(b) : b \in ShortBuffers }
    \cup { Truncated(b) : b \in ShortBuffers }
    \cup { Trailing(b) : b \in ShortBuffers }
    \cup { Wrap(Body(d) \o t) : d \in SeqsUpTo(Elements, MaxElems - 1), t \in BadTails }
    \cup { <<>>, PackInt(-1) \o <<0, 0>> }

Items == NameSet
Others == { << << <<97>>, "null" >> >> }

\* ---------------------------------------------------------------- state
VARIABLES
    alive,          \* the view has been constructed
    bson_bytes,     \* the argument __init__ was given
    raw,            \* self.__raw
    inflated_doc,   \* self.__inflated_doc
    last,           \* the most recent call on the view and its outcome
    steps,          \* calls made so far
    nfull,          \* invocations of the full-document decoder so far
    noted,          \* an earlier call and its outcome, kept by the caller
    tpc,            \* per thread, where it stands inside its call
    tcall,          \* per thread, the call it makes
    ttmp,           \* per thread, the dict its own full decode returned
    tres,           \* per thread, the outcome of its call
    assigns,        \* assignments made to self.__inflated_doc (line 63)
    gen,            \* per generator returned by _items(), its frame
    peer            \* a second view, the operand of a comparison

viewvars == << alive, bson_bytes, raw >>
callvars == << last, steps, noted >>
thrvars == << tpc, tcall, ttmp, tres, assigns >>
auxvars == << gen, peer >>
vars == << alive, bson_bytes, raw, inflated_doc, last, steps, nfull, noted,
           tpc, tcall, ttmp, tres, assigns, gen, peer >>

Threads == 1..NThreads

Call(op, item, other) == [op |-> op, item |-> item, other |-> other]
Calls ==
    { Call(op, i, <<>>) : op \in {"get", "contains"}, i \in Items }
    \cup { Call(op, <<>>, <<>>) : op \in {"length", "iterate", "iterateItems", "rawBytes"} }
    \cup { Call("equals", <<>>, o) : o \in Others }

Unseen == [exc |-> "unseen", val |-> <<>>]
Raised(e) == [exc |-> e, val |-> <<>>]
Returned(v) == [exc |-> NoExc, val |-> <<v>>]

\* ----------------------------------------------------------- operations
\* `if not self.__inflated_doc`: an empty dict taken for no dict.
IsFalsy(c) == ~c.computed \/ c.doc = <<>>

IsNone(c) == ~c.computed

\* The property __inflated (lines 60-64): the dict it returns, the cache it
\* leaves, and how many times it ran the full-document decoder.
\* The test of line 62 left out: every access decodes again.
InflatedNoCheck(data, cur) ==
    The({ IF d.exc # NoExc
          THEN [exc |-> d.exc, doc |-> <<>>, cache |-> cur, full |-> 1]
          ELSE [exc |-> NoExc, doc |-> d.doc, cache |-> Some(d.doc), full |-> 1]
          : d \in { decode(data) } })

\* The cache set to an empty dict before the decode fills it.
InflatedCachesFailure(data, cur) ==
    IF IsNone(cur)
    THEN The({ IF d.exc # NoExc
               THEN [exc |-> d.exc, doc |-> <<>>, cache |-> Some(<<>>), full |-> 1]
               ELSE [exc |-> NoExc, doc |-> d.doc, cache |-> Some(d.doc), full |-> 1]
               : d \in { decode(data) } })
    ELSE [exc |-> NoExc, doc |-> cur.doc, cache |-> cur, full |-> 0]

__inflated(data, cur) ==
    IF IsNone(cur)
    THEN The({ IF d.exc # NoExc
               THEN [exc |-> d.exc, doc |-> <<>>, cache |-> cur, full |-> 1]
               ELSE [exc |-> NoExc, doc |-> d.doc, cache |-> Some(d.doc), full |-> 1]
               : d \in { decode(data) } })
    ELSE [exc |-> NoExc, doc |-> cur.doc, cache |-> cur, full |-> 0]

\* Each operation as a function of the view's fields: its outcome `res`,
\* the cache it leaves, the full decodes and element decodes it made.
Outcome(res, cache, full, calls) ==
    [res |-> res, cache |-> cache, full |-> full, calls |-> calls]

\* __getitem__ (lines 96-98)
__getitem__(data, cur, item) ==
    The({ IF i.exc # NoExc THEN Outcome(Raised(i.exc), i.cache, i.full, 0)
          ELSE IF ~HasKey(i.doc, item) THEN Outcome(Raised(KeyError), i.cache, i.full, 0)
          ELSE Outcome(Returned(Lookup(i.doc, item)), i.cache, i.full, 0)
          : i \in { __inflated(data, cur) } })

\* `return item in self.__inflated` alone: membership forces the decode.
HasItemInflates(data, cur, item) ==
    The({ IF i.exc # NoExc THEN Outcome(Raised(i.exc), i.cache, i.full, 0)
          ELSE Outcome(Returned(HasKey(i.doc, item)), i.cache, i.full, 0)
          : i \in { __inflated(data, cur) } })

\* `self.__inflated.get(item) is not None` on the cache path.
HasItemNullIsAbsent(data, cur, item) ==
    IF ~IsNone(cur)
    THEN The({ Outcome(Returned(HasKey(i.doc, item) /\ Lookup(i.doc, item) # "null"),
                       i.cache, i.full, 0)
               : i \in { __inflated(data, cur) } })
    ELSE The({ IF s.exc # NoExc THEN Outcome(Raised(s.exc), cur, 0, s.calls)
               ELSE Outcome(Returned(s.found), cur, 0, s.calls)
               : s \in { _items(data, cur, item) } })

\* __hasitem__ (lines 88-94)
__hasitem__(data, cur, item) ==
    IF ~IsNone(cur)
    THEN The({ Outcome(Returned(HasKey(i.doc, item)), i.cache, i.full, 0)
               : i \in { __inflated(data, cur) } })
    ELSE The({ IF s.exc # NoExc THEN Outcome(Raised(s.exc), cur, 0, s.calls)
               ELSE Outcome(Returned(s.found), cur, 0, s.calls)
               : s \in { _items(data, cur, item) } })

\* __len__ (lines 103-104)
__len__(data, cur) ==
    The({ IF i.exc # NoExc THEN Outcome(Raised(i.exc), i.cache, i.full, 0)
          ELSE Outcome(Returned(Len(i.doc)), i.cache, i.full, 0)
          : i \in { __inflated(data, cur) } })

\* __iter__ (lines 100-101), consumed to the end
__iter__(data, cur) ==
    The({ IF i.exc # NoExc THEN Outcome(Raised(i.exc), i.cache, i.full, 0)
          ELSE Outcome(Returned(KeyList(i.doc)), i.cache, i.full, 0)
          : i \in { __inflated(data, cur) } })

\* list(self._items()) (lines 66-86), consumed to the end
ItemsAll(data, cur) ==
    The({ IF s.exc # NoExc THEN Outcome(Raised(s.exc), cur, 0, s.calls)
          ELSE Outcome(Returned(s.pairs), cur, 0, s.calls)
          : s \in { _items(data, cur, NoName) } })

\* __cmp__ (lines 106-107) against a dict; TRUE when cmp gives 0
DictEq(a, b) ==
    Len(a) = Len(b) /\ \A k \in Keys(b) : HasKey(a, k) /\ Lookup(a, k) = Lookup(b, k)

__cmp__(data, cur, other) ==
    The({ IF i.exc # NoExc THEN Outcome(Raised(i.exc), i.cache, i.full, 0)
          ELSE Outcome(Returned(DictEq(i.doc, other)), i.cache, i.full, 0)
          : i \in { __inflated(data, cur) } })

\* The bytes encoded again from the inflated dict once there is one.
RawReencodes(data, cur) ==
    Outcome(Returned(IF IsNone(cur) THEN data ELSE Encode(cur.doc)), cur, 0, 0)

\* the property raw (lines 55-58)
Raw(data, cur) == Outcome(Returned(data), cur, 0, 0)

NoCall == Call("none", <<>>, <<>>)

\* The generators a caller holds at one time.
Gens == { "g1", "g2" }

\* The frame of one generator of _items().  st: "none" (not created), "new"
\* (created, body not entered), "scan" (suspended at line 86), "cache"
\* (suspended at line 70), "done" (returned), "raised", "closed" (dropped by
\* its caller).  lazy: the test of line 68 found no dict.  position,
\* obj_end, obj_size: the locals of lines 72-85.  idx: entries of the dict
\* already yielded.  out: the pairs yielded.  calls: invocations of
\* _element_to_dict, and `at` the cursors they were made at.  pulls: calls
\* of next().  mat: a pull of the scanner branch found the dict present.
NoGen ==
    [st |-> "none", lazy |-> FALSE, position |-> 0, obj_end |-> 0, obj_size |-> 0,
     idx |-> 0, out |-> <<>>, calls |-> 0, pulls |-> 0, exc |-> NoExc, at |-> <<>>,
     mat |-> FALSE]

NoPeer == [alive |-> FALSE, raw |-> <<>>, inflated_doc |-> None]
NoLast == [call |-> NoCall, res |-> Unseen, was |-> None, full |-> 0, calls |-> 0,
           first |-> Unseen]

Nothing == [call |-> NoCall, res |-> Unseen]

Init ==
    /\ alive = FALSE
    /\ bson_bytes = <<>>
    /\ raw = <<>>
    /\ inflated_doc = None
    /\ last = NoLast
    /\ steps = 0
    /\ nfull = 0
    /\ noted = Nothing
    /\ tpc = [t \in Threads |-> "idle"]
    /\ tcall = [t \in Threads |-> NoCall]
    /\ ttmp = [t \in Threads |-> <<>>]
    /\ tres = [t \in Threads |-> Unseen]
    /\ assigns = 0
    /\ gen = [g \in Gens |-> NoGen]
    /\ peer = NoPeer

\* A constructor that checks the header before it stores the bytes.
InitValidates(b) ==
    /\ ~alive
    /\ ItemsOpen(b).exc = NoExc
    /\ alive' = TRUE
    /\ bson_bytes' = b
    /\ raw' = b
    /\ inflated_doc' = None
    /\ last' = [NoLast EXCEPT !.call = Call("new", <<>>, <<>>), !.res = Returned(b)]
    /\ UNCHANGED << steps, nfull, noted, thrvars, auxvars >>

\* __init__ (lines 38-53)
__init__(b) ==
    /\ ~alive
    /\ alive' = TRUE
    /\ bson_bytes' = b
    /\ raw' = b
    /\ inflated_doc' = None
    /\ last' = [NoLast EXCEPT !.call = Call("new", <<>>, <<>>), !.res = Returned(b)]
    /\ UNCHANGED << steps, nfull, noted, thrvars, auxvars >>

Construct == \E b \in Buffers : __init__(b)

\* One call on the view by its only caller.
Do(c, outcome) ==
    /\ alive
    /\ steps < MaxOps
    /\ \E o \in { outcome } :
           /\ inflated_doc' = o.cache
           /\ nfull' = nfull + o.full
           /\ last' = [call |-> c, res |-> o.res, was |-> inflated_doc,
                       full |-> o.full, calls |-> o.calls,
                       first |-> IF noted.call = c THEN noted.res ELSE Unseen]
           /\ \/ noted' = noted
              \/ noted = Nothing /\ noted' = [call |-> c, res |-> o.res]
    /\ steps' = steps + 1
    /\ UNCHANGED << viewvars, thrvars, auxvars >>

Get == \E i \in Items : Do(Call("get", i, <<>>), __getitem__(raw, inflated_doc, i))
Contains == \E i \in Items : Do(Call("contains", i, <<>>), __hasitem__(raw, inflated_doc, i))
Length == Do(Call("length", <<>>, <<>>), __len__(raw, inflated_doc))
Iterate == Do(Call("iterate", <<>>, <<>>), __iter__(raw, inflated_doc))
IterateItems == Do(Call("iterateItems", <<>>, <<>>), ItemsAll(raw, inflated_doc))
Equals == \E o \in Others : Do(Call("equals", <<>>, o), __cmp__(raw, inflated_doc, o))
RawBytes == Do(Call("rawBytes", <<>>, <<>>), Raw(raw, inflated_doc))

Next ==
    \/ Construct
    \/ Get
    \/ Contains
    \/ Length
    \/ Iterate
    \/ IterateItems
    \/ Equals
    \/ RawBytes

Spec == Init /\ [][Next]_vars


\* ------------------------------------------------------ concurrent callers
\* Several threads call materializing operations on one view.  A thread
\* switch can fall between any two of the steps of __inflated: the test of
\* line 62, the decode and the assignment of line 63, the read of line 64.
ThreadCalls ==
    { Call("get", i, <<>>) : i \in Items } \cup { Call("length", <<>>, <<>>) }

ConcBuffers ==
    ShortBuffers
    \cup { BadTerminator(b) : b \in ShortBuffers }
    \cup { Wrap(t) : t \in BadTails }

ConstructShared == \E b \in ConcBuffers : __init__(b)

\* A thread enters __getitem__ or __len__ and reaches the property.
T_Call(t) ==
    /\ alive
    /\ tpc[t] = "idle"
    /\ \E c \in ThreadCalls : tcall' = [tcall EXCEPT ![t] = c]
    /\ tpc' = [tpc EXCEPT ![t] = "check"]
    /\ UNCHANGED << viewvars, callvars, auxvars, inflated_doc, nfull, ttmp, tres, assigns >>

\* line 62: if self.__inflated_doc is None
T_Check(t) ==
    /\ tpc[t] = "check"
    /\ tpc' = [tpc EXCEPT ![t] = IF IsNone(inflated_doc) THEN "decode" ELSE "return"]
    /\ UNCHANGED << viewvars, callvars, auxvars, inflated_doc, nfull, tcall, ttmp, tres, assigns >>

\* line 63, right-hand side: self.__raw.decode(self.__codec_options)
T_Decode(t) ==
    /\ tpc[t] = "decode"
    /\ \E d \in { decode(raw) } :
           IF d.exc # NoExc
           THEN /\ tpc' = [tpc EXCEPT ![t] = "done"]
                /\ tres' = [tres EXCEPT ![t] = Raised(d.exc)]
                /\ ttmp' = ttmp
           ELSE /\ tpc' = [tpc EXCEPT ![t] = "store"]
                /\ ttmp' = [ttmp EXCEPT ![t] = d.doc]
                /\ tres' = tres
    /\ nfull' = nfull + 1
    /\ UNCHANGED << viewvars, callvars, auxvars, inflated_doc, tcall, assigns >>

\* The cache published empty and filled one entry at a time.
T_StoreGrowing(t) ==
    /\ tpc[t] = "store"
    /\ LET n == IF IsNone(inflated_doc) THEN 0
                ELSE Min(Len(inflated_doc.doc) + 1, Len(ttmp[t]))
       IN  /\ inflated_doc' = Some(SubSeq(ttmp[t], 1, n))
           /\ tpc' = [tpc EXCEPT ![t] = IF n = Len(ttmp[t]) THEN "return" ELSE "store"]
    /\ assigns' = assigns + 1
    /\ UNCHANGED << viewvars, callvars, auxvars, nfull, tcall, ttmp, tres >>

\* line 63, the assignment to self.__inflated_doc
T_Store(t) ==
    /\ tpc[t] = "store"
    /\ inflated_doc' = Some(ttmp[t])
    /\ assigns' = assigns + 1
    /\ tpc' = [tpc EXCEPT ![t] = "return"]
    /\ UNCHANGED << viewvars, callvars, auxvars, nfull, tcall, ttmp, tres >>

\* line 64: return self.__inflated_doc, and the caller's use of the dict
T_Return(t) ==
    /\ tpc[t] = "return"
    /\ tres' = [tres EXCEPT ![t] =
                    IF tcall[t].op = "get"
                    THEN __getitem__(raw, inflated_doc, tcall[t].item).res
                    ELSE __len__(raw, inflated_doc).res]
    /\ tpc' = [tpc EXCEPT ![t] = "done"]
    /\ UNCHANGED << viewvars, callvars, auxvars, inflated_doc, nfull, tcall, ttmp, assigns >>

ThreadStep ==
    \E t \in Threads :
        \/ T_Call(t)
        \/ T_Check(t)
        \/ T_Decode(t)
        \/ T_Store(t)
        \/ T_Return(t)

NextConc ==
    \/ ConstructShared
    \/ ThreadStep

SpecConc == Init /\ [][NextConc]_vars


\* ------------------------------------------------- generators of _items()
\* A call of _items() only creates a generator; the body runs one pull at a
\* time, and between two pulls the caller can do anything else.

\* One pull with the element after the one yielded decoded ahead of need.
GenScanAhead(data, s) ==
    The({ IF p.kind = "stop" THEN [s EXCEPT !.st = "done"]
          ELSE IF p.kind = "raise"
          THEN [s EXCEPT !.st = "raised", !.exc = p.exc, !.calls = @ + 1,
                         !.at = Append(@, s.position)]
          ELSE [s EXCEPT !.out = Append(@, << p.name, p.value >>),
                         !.position = p.position,
                         !.calls = @ + 1 + (IF p.position < s.obj_end THEN 1 ELSE 0),
                         !.at = Append(@, s.position)]
          : p \in { ItemsPull(data, s.position, s.obj_end, s.obj_size) } })

\* lines 83-86: the loop test, one call of _element_to_dict, the yield
GenScan(data, s) ==
    The({ IF p.kind = "stop" THEN [s EXCEPT !.st = "done"]
          ELSE IF p.kind = "raise"
          THEN [s EXCEPT !.st = "raised", !.exc = p.exc, !.calls = @ + 1,
                         !.at = Append(@, s.position)]
          ELSE [s EXCEPT !.out = Append(@, << p.name, p.value >>),
                         !.position = p.position, !.calls = @ + 1,
                         !.at = Append(@, s.position)]
          : p \in { ItemsPull(data, s.position, s.obj_end, s.obj_size) } })

\* lines 69-70: the next entry of the dict, in its order
GenCache(cur, s) ==
    IF s.idx < Len(cur.doc)
    THEN [s EXCEPT !.idx = @ + 1, !.out = Append(@, cur.doc[s.idx + 1])]
    ELSE [s EXCEPT !.st = "done"]

\* lines 68-80: the first pull enters the body, takes one branch for good,
\* and on the scanner branch makes the two checks before the loop.
GenStart(data, cur, s) ==
    IF ~IsNone(cur)
    THEN GenCache(cur, [s EXCEPT !.st = "cache", !.lazy = FALSE])
    ELSE The({ IF o.exc # NoExc
               THEN [s EXCEPT !.st = "raised", !.lazy = TRUE, !.exc = o.exc,
                              !.obj_size = o.obj_size, !.obj_end = o.obj_end]
               ELSE GenScan(data, [s EXCEPT !.st = "scan", !.lazy = TRUE, !.position = 4,
                                            !.obj_size = o.obj_size, !.obj_end = o.obj_end])
               : o \in { ItemsOpen(data) } })

\* A generator that makes the test of line 68 again at every pull, and
\* goes on from the dict once there is one.
GenNextRechecks(data, cur, s) ==
    LET t == [s EXCEPT !.pulls = @ + 1,
                       !.mat = @ \/ (s.st = "scan" /\ ~IsNone(cur))]
    IN  IF s.st = "new" THEN GenStart(data, cur, t)
        ELSE IF ~IsNone(cur) THEN GenCache(cur, [t EXCEPT !.idx = Len(s.out)])
        ELSE GenScan(data, t)

\* next() on a generator of _items() (lines 66-86)
GenNext(data, cur, s) ==
    LET t == [s EXCEPT !.pulls = @ + 1,
                       !.mat = @ \/ (s.st = "scan" /\ ~IsNone(cur))]
    IN  IF s.st = "new" THEN GenStart(data, cur, t)
        ELSE IF s.st = "scan" THEN GenScan(data, t)
        ELSE GenCache(cur, t)

Running == { "new", "scan", "cache" }

\* self._items() is called: a generator exists, none of its body has run.
G_New(g) ==
    /\ alive
    /\ gen[g].st = "none"
    /\ gen' = [gen EXCEPT ![g].st = "new"]
    /\ UNCHANGED << viewvars, callvars, thrvars, inflated_doc, nfull, peer >>

\* One cursor kept on the view: a pull moves every scan of the view.
G_PullShared(g) ==
    /\ gen[g].st \in Running
    /\ \E n \in { GenNext(raw, inflated_doc, gen[g]) } :
           gen' = [h \in Gens |->
                      IF h = g THEN n
                      ELSE IF gen[h].st = "scan" /\ n.lazy
                      THEN [gen[h] EXCEPT !.position = n.position]
                      ELSE gen[h]]
    /\ UNCHANGED << viewvars, callvars, thrvars, inflated_doc, nfull, peer >>

\* The loop written over self.__inflated: the first pull inflates the view.
G_PullInflates(g) ==
    /\ gen[g].st \in Running
    /\ \E i \in { __inflated(raw, inflated_doc) } :
           /\ inflated_doc' = IF gen[g].st = "new" THEN i.cache ELSE inflated_doc
           /\ nfull' = IF gen[g].st = "new" THEN nfull + i.full ELSE nfull
           /\ gen' = [gen EXCEPT ![g] =
                         IF gen[g].st = "new" /\ i.exc # NoExc
                         THEN [gen[g] EXCEPT !.st = "raised", !.exc = i.exc, !.pulls = @ + 1]
                         ELSE GenNext(raw, inflated_doc', gen[g])]
    /\ UNCHANGED << viewvars, callvars, thrvars, peer >>

\* next(g): the body runs to its next yield, to its end, or to a raise.
G_Pull(g) ==
    /\ gen[g].st \in Running
    /\ gen' = [gen EXCEPT ![g] = GenNext(raw, inflated_doc, gen[g])]
    /\ UNCHANGED << viewvars, callvars, thrvars, inflated_doc, nfull, peer >>

\* The caller stops pulling and drops the generator (as line 93 does).
G_Close(g) ==
    /\ gen[g].st \in { "scan", "cache" }
    /\ gen' = [gen EXCEPT ![g].st = "closed"]
    /\ UNCHANGED << viewvars, callvars, thrvars, inflated_doc, nfull, peer >>

\* A materializing operation called while generators are suspended
\* (__len__, lines 103-104): the view leaves Lazy if the decode succeeds.
Materialize ==
    /\ alive
    /\ IsNone(inflated_doc)
    /\ nfull < MaxOps
    /\ \E o \in { __len__(raw, inflated_doc) } :
           /\ inflated_doc' = o.cache
           /\ nfull' = nfull + o.full
    /\ UNCHANGED << viewvars, callvars, thrvars, auxvars >>

GenStep ==
    \E g \in Gens :
        \/ G_New(g)
        \/ G_Pull(g)
        \/ G_Close(g)

NextIter ==
    \/ Construct
    \/ GenStep
    \/ Materialize

SpecIter == Init /\ [][NextIter]_vars


\* ------------------------------------------------ comparison of two views
\* `peer` is a second RawBSONDocument.  cmp(dict, view) finds no answer
\* in the dict and turns to the view: the __eq__ that the view inherits from
\* collections.Mapping (line 27) builds dict(view.items()), which goes
\* through __iter__ and __getitem__ of the view (lines 96-101) and so
\* through its property __inflated.

\* The two buffers compared byte for byte, neither decoded.
CmpRawBytes(data, cur, odata, ocur) ==
    [res |-> Returned(data = odata), cache |-> cur, ocache |-> ocur, full |-> 0]

\* __cmp__ (lines 106-107) with a view as operand; TRUE when cmp gives 0
CmpView(data, cur, odata, ocur) ==
    The({ IF i.exc # NoExc
          THEN [res |-> Raised(i.exc), cache |-> i.cache, ocache |-> ocur, full |-> i.full]
          ELSE The({ IF j.exc # NoExc
                     THEN [res |-> Raised(j.exc), cache |-> i.cache, ocache |-> j.cache,
                           full |-> i.full + j.full]
                     ELSE [res |-> Returned(DictEq(i.doc, j.doc)), cache |-> i.cache,
                           ocache |-> j.cache, full |-> i.full + j.full]
                     : j \in { __inflated(odata, ocur) } })
          : i \in { __inflated(data, cur) } })

\* __init__ (lines 38-53) of the second view
E_Other ==
    /\ alive
    /\ ~peer.alive
    /\ \E c \in ConcBuffers : peer' = [alive |-> TRUE, raw |-> c, inflated_doc |-> None]
    /\ UNCHANGED << viewvars, callvars, thrvars, inflated_doc, nfull, gen >>

\* len(peer) (lines 103-104) called on the second view
E_InflateOther ==
    /\ peer.alive
    /\ IsNone(peer.inflated_doc)
    /\ nfull < MaxOps
    /\ \E o \in { __len__(peer.raw, peer.inflated_doc) } :
           /\ peer' = [peer EXCEPT !.inflated_doc = o.cache]
           /\ nfull' = nfull + o.full
    /\ UNCHANGED << viewvars, callvars, thrvars, inflated_doc, gen >>

\* view == peer
E_Equals ==
    /\ alive
    /\ peer.alive
    /\ nfull < MaxOps
    /\ \E o \in { CmpView(raw, inflated_doc, peer.raw, peer.inflated_doc) } :
           /\ inflated_doc' = o.cache
           /\ peer' = [peer EXCEPT !.inflated_doc = o.ocache]
           /\ nfull' = nfull + o.full
           /\ last' = [call |-> Call("equalsView", <<>>, <<>>), res |-> o.res,
                       was |-> inflated_doc, full |-> o.full, calls |-> 0,
                       first |-> Unseen]
    /\ UNCHANGED << viewvars, thrvars, steps, noted, gen >>

NextEq ==
    \/ Construct
    \/ E_Other
    \/ Materialize
    \/ E_InflateOther
    \/ E_Equals

SpecEq == Init /\ [][NextEq]_vars


\* ================================================================ claims
MatOps == { "get", "length", "iterate", "equals" }
DecodeErrors == { BadSize, BadEoo, BadElement }
Scanned(b) == _items(b, None, NoName)
FullDoc(b) == decode(b).doc
FirstIndex(pairs, k) ==
    CHOOSE i \in 1..Len(pairs) : pairs[i][1] = k /\ \A j \in 1..(i - 1) : pairs[j][1] # k

\* C1: with two or more threads in materializing operations on one view,
\* the check-and-populate of the cache acts as if under mutual exclusion:
\* the cache is assigned exactly once, and no thread that read it as None
\* still assigns it after it was published.
C1_MutualExclusion ==
    /\ assigns <= 1
    /\ \A t \in Threads : tpc[t] = "store" => IsNone(inflated_doc)

\* C2: under any interleaving no caller sees a partly filled cache: the
\* cache is None or the complete mapping of one full decode of the buffer,
\* and every value a materializing operation returns is the one the
\* complete mapping gives.
C2_NoPartialCache ==
    /\ ~IsNone(inflated_doc) =>
          decode(raw).exc = NoExc /\ inflated_doc.doc = FullDoc(raw)
    /\ \A t \in Threads :
          tpc[t] = "done" /\ tres[t].exc \in { NoExc, KeyError } =>
             /\ decode(raw).exc = NoExc
             /\ tres[t] = IF tcall[t].op = "get"
                          THEN IF HasKey(FullDoc(raw), tcall[t].item)
                               THEN Returned(Lookup(FullDoc(raw), tcall[t].item))
                               ELSE Raised(KeyError)
                          ELSE Returned(Len(FullDoc(raw)))

\* A thread has returned a value of a non-empty document while another,
\* which had read the cache as None, is still about to assign it.
C2_Witness ==
    \E t, u \in Threads :
        /\ t # u
        /\ tpc[t] = "done" /\ tres[t].exc = NoExc
        /\ tpc[u] = "store"
        /\ ~IsNone(inflated_doc) /\ Len(inflated_doc.doc) >= 1

\* C3: in a single-threaded run Materialized is terminal: once the cache
\* is computed no later operation, raising ones included, resets it,
\* decodes again or changes its contents.
C3_MaterializedTerminal ==
    [][ ~IsNone(inflated_doc) => inflated_doc' = inflated_doc /\ nfull' = nfull ]_vars

\* An operation raised on a view that was already Materialized.
C3_Witness ==
    /\ ~IsNone(last.was)
    /\ last.res.exc = KeyError
    /\ ~IsNone(inflated_doc)

Failed(l) == l.call.op \in MatOps /\ l.res.exc \in DecodeErrors

\* C4: a materialization that fails leaves the view Lazy (neither a failure
\* nor a partial mapping is cached), and the same operation tried again
\* runs the decode again and fails the same way.
C4_FailureLeavesLazy ==
    [][ /\ Failed(last') => IsNone(inflated_doc') /\ last'.full = 1
        /\ Failed(last) /\ last'.call = last.call =>
              /\ last'.res = last.res
              /\ last'.full = 1
              /\ nfull' = nfull + 1
              /\ IsNone(inflated_doc') ]_vars

\* A materializing operation failed, was tried again and failed again.
C4_Witness ==
    /\ Failed(last)
    /\ noted.call = last.call
    /\ last.first.exc = last.res.exc
    /\ nfull >= 2
    /\ IsNone(inflated_doc)

\* C5: on a well-formed buffer, in a single-threaded run, the view becomes
\* Materialized exactly once, at the first length, iterate, equals or get
\* (get also when the name is absent); every later such call is served by
\* the cache, so the full-document decoder runs at most once.
C5_MaterializedOnce ==
    [][ WellFormed(raw') /\ steps' = steps + 1 =>
          /\ last'.call.op \in MatOps =>
                /\ ~IsNone(inflated_doc')
                /\ last'.full = IF IsNone(inflated_doc) THEN 1 ELSE 0
          /\ last'.call.op \notin MatOps =>
                inflated_doc' = inflated_doc /\ last'.full = 0
          /\ nfull' = nfull + last'.full
          /\ nfull' <= 1 ]_vars

\* A get of an absent name was the call that materialized the view, and a
\* later materializing call was served by the cache.
C5_Witness ==
    /\ WellFormed(raw)
    /\ noted.call.op = "get" /\ noted.res.exc = KeyError
    /\ last.call.op \in MatOps /\ ~IsNone(last.was)
    /\ steps = 2
    /\ nfull = 1

\* C6: construction never fails and never decodes: for every buffer, the
\* malformed ones included, it gives a Lazy view holding the buffer as it
\* was given, and MalformedDocument comes only from a later operation that
\* takes a decode path.
C6_ConstructionLazy ==
    /\ ~alive => \A b \in Buffers : ENABLED __init__(b)
    /\ alive /\ steps = 0 =>
          /\ last.call.op = "new"
          /\ last.res = Returned(bson_bytes)
          /\ raw = bson_bytes
          /\ IsNone(inflated_doc)
          /\ nfull = 0 /\ last.full = 0 /\ last.calls = 0
    /\ last.res.exc \in { BadSize, BadEoo } =>
          last.call.op \in MatOps \cup { "contains", "iterateItems" }

\* A view was built over a buffer whose header the scanner rejects, and
\* the first decoding operation on it is what raised.
C6_Witness ==
    /\ alive /\ steps = 1
    /\ ItemsOpen(raw).exc = BadSize
    /\ last.res.exc = BadSize

\* C7: contains(name) on a Lazy view never changes the cache: it walks the
\* scanner, stops at the first element of that name and leaves the view
\* Lazy whatever it returns; on a Materialized view the cache answers and
\* nothing is scanned.
C7_ContainsKeepsLazy ==
    [][ steps' = steps + 1 /\ last'.call.op = "contains" =>
          /\ inflated_doc' = inflated_doc
          /\ nfull' = nfull /\ last'.full = 0
          /\ IsNone(inflated_doc) /\ last'.res.exc = NoExc =>
                IF last'.res.val[1]
                THEN last'.calls = FirstIndex(Scanned(raw).pairs, last'.call.item)
                ELSE last'.calls = Len(Scanned(raw).pairs)
          /\ ~IsNone(inflated_doc) => last'.calls = 0 /\ last'.res.exc = NoExc ]_vars

\* contains found the name at the first of several elements of a Lazy view
\* and stopped there.
C7_Witness ==
    /\ last.call.op = "contains"
    /\ IsNone(last.was) /\ IsNone(inflated_doc)
    /\ last.res.exc = NoExc /\ last.res.val[1]
    /\ last.calls = 1
    /\ Len(Scanned(raw).pairs) >= 2

\* C8: on a well-formed buffer contains(name) is true exactly when name is
\* a key of the fully materialized mapping, on the scanner path and on the
\* cache path, also when the key's decoded value is null.
C8_ContainsIffKey ==
    last.call.op = "contains" /\ WellFormed(raw) =>
        last.res = Returned(HasKey(FullDoc(raw), last.call.item))

\* contains was asked on the Lazy view and again on the Materialized one,
\* for a key whose value is null.
C8_Witness ==
    /\ last.call.op = "contains" /\ WellFormed(raw)
    /\ noted.call = last.call
    /\ ~IsNone(last.was)
    /\ HasKey(FullDoc(raw), last.call.item)
    /\ Lookup(FullDoc(raw), last.call.item) = "null"
    /\ nfull = 1 /\ steps = 3

\* C9: on every well-formed buffer, two elements of one name included,
\* length() is the number of top-level elements of a full scan and the
\* number of pairs iterateItems() gives, before or after materialization.
C9_LengthIsElementCount ==
    WellFormed(raw) /\ last.res.exc = NoExc =>
        /\ last.call.op = "length" => last.res.val[1] = Len(Scanned(raw).pairs)
        /\ last.call.op = "iterateItems" =>
              /\ Len(last.res.val[1]) = Len(Scanned(raw).pairs)
              /\ Len(last.res.val[1]) = Len(FullDoc(raw))

\* C10: reads are idempotent: the same read with the same arguments gives
\* equal results both times, whatever reads came between and whether or
\* not the view became Materialized between the two.
C10_ReadsIdempotent ==
    last.first.exc # "unseen" => last.res = last.first

\* C11: there is no partial success.  iterateItems() on a Lazy view that
\* fails has delivered no pair before it raised, and contains(name) does
\* not answer true for a name for which get(name) raised a decode error.
C11_NoPartialSuccess ==
    /\ last.call.op = "iterateItems" /\ IsNone(last.was) /\ last.res.exc \in DecodeErrors =>
          Scanned(raw).pairs = <<>>
    /\ last.call.op = "contains" /\ last.res = Returned(TRUE) =>
          ~(noted.call = Call("get", last.call.item, <<>>) /\ noted.res.exc \in DecodeErrors)

DictSame(a, b) ==
    \A k \in NameSet :
        /\ HasKey(a, k) <=> HasKey(b, k)
        /\ HasKey(a, k) => Lookup(a, k) = Lookup(b, k)

\* C12: equals between two views compares the materialized forms of both:
\* when it returns, the receiver and the other view are both Materialized,
\* each with the mapping of its own buffer, and the answer is true exactly
\* when those two mappings are equal.
C12_EqualsMaterializesBoth ==
    last.call.op = "equalsView" /\ last.res.exc = NoExc =>
        /\ ~IsNone(inflated_doc) /\ inflated_doc.doc = FullDoc(raw)
        /\ ~IsNone(peer.inflated_doc) /\ peer.inflated_doc.doc = FullDoc(peer.raw)
        /\ last.res.val[1] <=> DictSame(FullDoc(raw), FullDoc(peer.raw))

\* Two Lazy views over different bytes that hold equal non-empty mappings
\* were compared: both were decoded and the answer was true.
C12_Witness ==
    /\ last.call.op = "equalsView"
    /\ IsNone(last.was) /\ last.full = 2
    /\ last.res = Returned(TRUE)
    /\ raw # peer.raw
    /\ Len(inflated_doc.doc) >= 1

Started(s) == s.st \notin { "none", "new" }

DeclaredSize(b) == UNPACK_INT(SubSeq(b, 1, 4))

\* C13: the scanner validates before it yields, size first: on the first
\* pull of a Lazy view a declared size above the buffer length raises
\* "invalid object size", a well-sized buffer whose byte at declared size
\* - 1 is not zero raises "bad eoo", and in both cases no element was
\* decoded and no pair yielded.
C13_ValidatesBeforeYield ==
    \A g \in Gens :
        Started(gen[g]) /\ gen[g].lazy /\ Len(raw) >= 4 =>
            /\ DeclaredSize(raw) > Len(raw) =>
                  /\ gen[g].st = "raised" /\ gen[g].exc = BadSize
                  /\ gen[g].calls = 0 /\ gen[g].out = <<>>
            /\ ( /\ DeclaredSize(raw) >= 1
                 /\ DeclaredSize(raw) <= Len(raw)
                 /\ raw[DeclaredSize(raw)] # 0 ) =>
                  /\ gen[g].st = "raised" /\ gen[g].exc = BadEoo
                  /\ gen[g].calls = 0 /\ gen[g].out = <<>>

\* The first pull on a buffer shorter than its declared size raised.
C13_Witness ==
    \E g \in Gens :
        /\ gen[g].lazy /\ gen[g].pulls = 1
        /\ Len(raw) >= 4 /\ DeclaredSize(raw) > Len(raw)
        /\ gen[g].st = "raised" /\ gen[g].exc = BadSize

IsPrefix(a, b) == Len(a) <= Len(b) /\ SubSeq(b, 1, Len(a)) = a

\* The frame s agrees with a scan of the buffer made in one go.
ScanAgrees(s) ==
    /\ IsPrefix(s.out, Scanned(raw).pairs)
    /\ s.st = "done" => s.out = Scanned(raw).pairs /\ Scanned(raw).exc = NoExc
    /\ s.st = "raised" => s.out = Scanned(raw).pairs /\ s.exc = Scanned(raw).exc

Pulled(g) == gen'[g].pulls > gen[g].pulls

\* C14: two sequences of iterateItems() on one view that is still Lazy
\* each start at offset 4 and give the whole sequence of pairs, however
\* their pulls interleave: a pull of one changes nothing of the other.
C14_Restartable ==
    /\ [](IsNone(inflated_doc) =>
             \A g \in Gens :
                 Started(gen[g]) /\ gen[g].lazy =>
                     /\ ScanAgrees(gen[g])
                     /\ gen[g].at # <<>> => gen[g].at[1] = 4)
    /\ [][ \A g, h \in Gens : g # h /\ Pulled(g) => gen'[h] = gen[h] ]_vars

\* On a Lazy view one scan is suspended after its first pair while the
\* other has run to its end and given every pair.
C14_Witness ==
    \E g, h \in Gens :
        /\ IsNone(inflated_doc) /\ nfull = 0
        /\ gen[g].lazy /\ gen[g].st = "scan" /\ Len(gen[g].out) = 1
        /\ gen[h].lazy /\ gen[h].st = "done" /\ Len(gen[h].out) >= 2

\* C15: a pull of iterateItems() on a Lazy view never materializes it and
\* runs no full decode; a sequence begun on a Materialized view yields the
\* entries of the cached mapping in their order and decodes no element.
C15_ItemsKeepsLazy ==
    /\ [](\A g \in Gens :
              Started(gen[g]) /\ ~gen[g].lazy =>
                  /\ gen[g].calls = 0
                  /\ ~IsNone(inflated_doc)
                  /\ IsPrefix(gen[g].out, inflated_doc.doc)
                  /\ gen[g].st = "done" => gen[g].out = inflated_doc.doc)
    /\ [][ \A g \in Gens :
               Pulled(g) /\ IsNone(inflated_doc) =>
                   IsNone(inflated_doc') /\ nfull' = nfull ]_vars

\* A scan ran to its end and gave pairs while the view stayed Lazy with
\* no full decode ever run.
C15_Witness ==
    \E g \in Gens :
        /\ gen[g].lazy /\ gen[g].st = "done" /\ Len(gen[g].out) >= 1
        /\ IsNone(inflated_doc) /\ nfull = 0

\* C16: the buffer is never changed: rawBytes() always returns the bytes
\* given at construction, also after operations that raised, and it runs
\* no decode and leaves the cache as it was.
C16_BufferImmutable ==
    alive =>
        /\ raw = bson_bytes
        /\ last.call.op = "rawBytes" =>
              /\ last.res = Returned(bson_bytes)
              /\ last.full = 0 /\ last.calls = 0
              /\ inflated_doc = last.was

\* rawBytes was read on a Materialized view whose buffer holds one name
\* twice, after an earlier operation had raised.
C16_Witness ==
    /\ last.call.op = "rawBytes"
    /\ noted.res.exc = KeyError
    /\ ~IsNone(last.was)
    /\ Len(Scanned(raw).pairs) > Len(last.was.doc)

\* C17: the scanner is lazy: a scan has run the single-element decoder
\* once for each pair it has given (and once more for the pull that
\* raised), never ahead; a caller that stops early gets no error and no
\* further decode; contains(name) on a Lazy view whose first match is the
\* k-th element runs the decoder exactly k times.
C17_DecodesOnDemand ==
    /\ \A g \in Gens :
           Started(gen[g]) /\ gen[g].lazy =>
               /\ gen[g].calls <= gen[g].pulls
               /\ gen[g].st \in { "scan", "done", "closed" } =>
                     gen[g].calls = Len(gen[g].out) /\ gen[g].exc = NoExc
               /\ gen[g].st = "raised" /\ gen[g].exc = BadElement =>
                     gen[g].calls = Len(gen[g].out) + 1
    /\ \A i \in Items :
           alive /\ __hasitem__(raw, None, i).res = Returned(TRUE) =>
               __hasitem__(raw, None, i).calls = FirstIndex(Scanned(raw).pairs, i)

\* A caller dropped a scan after its first pair although the buffer holds
\* more elements: one decode was made.
C17_Witness ==
    \E g \in Gens :
        /\ gen[g].lazy /\ gen[g].st = "closed"
        /\ Len(gen[g].out) = 1 /\ gen[g].calls = 1
        /\ Len(Scanned(raw).pairs) >= 2

\* C18: a scan that ran to its end without raising ended with its cursor
\* exactly at end = declared size - 1; a last element whose returned
\* offset is another one is reported, not passed over in silence.
C18_EndsAtTerminator ==
    \A g \in Gens :
        gen[g].lazy /\ gen[g].st = "done" /\ gen[g].obj_size >= 5 =>
            gen[g].position = gen[g].obj_end

Opened(s) ==
    Started(s) /\ s.lazy /\ s.exc \notin { StructError, BadSize, BadEoo }

\* C19: a scan is finite: on a buffer that passed the two checks the
\* decoder is called only at cursors below end, the first at 4 and each
\* one above the one before, the cursor never passes the declared size,
\* and so the scan ends or raises after pairs and pulls bounded by the
\* declared size.
C19_ScanFinite ==
    \A g \in Gens :
        Opened(gen[g]) =>
            /\ Len(gen[g].at) = gen[g].calls
            /\ gen[g].at # <<>> => gen[g].at[1] = 4
            /\ \A k \in 1..Len(gen[g].at) : gen[g].at[k] < gen[g].obj_end
            /\ \A k \in 1..(Len(gen[g].at) - 1) : gen[g].at[k] < gen[g].at[k + 1]
            /\ gen[g].st # "raised" /\ gen[g].at # <<>> =>
                  gen[g].position > gen[g].at[Len(gen[g].at)]
            /\ gen[g].position <= Max(gen[g].obj_size, 4)
            /\ Len(gen[g].out) <= Max(gen[g].obj_size, 0)
            /\ gen[g].pulls <= Len(gen[g].out) + 1

\* A scan of a buffer of two elements ended at its third pull.
C19_Witness ==
    \E g \in Gens :
        /\ Opened(gen[g]) /\ gen[g].st = "done"
        /\ Len(gen[g].out) = 2 /\ gen[g].pulls = 3

\* C20: a sequence whose first pull found the view Lazy is not touched by
\* a materialization between its pulls: it goes on from its own cursor
\* with one decoder call per pair, gives the pairs of a scan made in one
\* go, and never assigns the cache.
C20_ScanSurvivesMaterialize ==
    /\ [](\A g \in Gens :
              gen[g].lazy /\ gen[g].mat =>
                  /\ ScanAgrees(gen[g])
                  /\ Len(gen[g].out) <= gen[g].calls)
    /\ [][ \A g \in Gens :
               Pulled(g) /\ gen[g].lazy =>
                   inflated_doc' = inflated_doc /\ nfull' = nfull ]_vars

\* A scan begun Lazy ran to its end after the view was materialized, and
\* gave the two elements of one name that the cached mapping holds as one.
C20_Witness ==
    \E g \in Gens :
        /\ gen[g].lazy /\ gen[g].mat /\ gen[g].st = "done"
        /\ ~IsNone(inflated_doc)
        /\ Len(gen[g].out) > Len(inflated_doc.doc)

====
